---- MODULE Spec2Model ----
(***************************************************************************)
(* A model of oxidgb's cartridge mapper (src/core/rom.rs, GameROM) and of  *)
(* its general 8-bit / 16-bit arithmetic instruction handlers              *)
(* (src/core/cpu/instrs/general.rs).                                       *)
(*                                                                         *)
(* SpecRom   : build, then any sequence of read / read_ram / write /       *)
(*             write_ram on the built GameROM, until one of them panics.   *)
(* SpecAlu8  : one of add_a_n / sub_a_n / adc_a_n applied to a register    *)
(*             file drawn from all 8-bit accumulators and operands.        *)
(* SpecAlu16 : add_hl_x applied to sampled 16-bit HL and operand values.   *)
(***************************************************************************)
EXTENDS Integers, FiniteSets, Sequences, TLC

VARIABLES
    \* ---- the cartridge file handed to build, and the GameROM fields ----
    file,           \* the bytes found at `path` (see ByteAt)
    rom_state,      \* "unbuilt" | "live" | "panicked"
    backing_data,   \* GameROM.backing_data : Vec<u8>
    current_bank,   \* GameROM.current_bank : u8
    cart_ram,       \* GameROM.cart_ram     : Vec<u8>
    ram_size,       \* GameROM.ram_size     : usize
    cart_type,      \* GameROM.cart_type    : CartridgeType (its discriminant)
    \* ---- the last mapper call: which, its arguments, its return value ----
    op, ptr, val, ret,
    sel,            \* history: <<v>>, v the latest value written into
                    \* 0x2000-0x3FFF, or <<>> before any such write
    \* ---- the CPU register file (the registers general.rs touches) ----
    a, f, h, l, pc,
    \* ---- the last instruction: which, operand, returned cycles, and the
    \*      register values it started from ----
    instr, operand, cycles, prev_a, prev_f, prev_hl

romVars == <<file, rom_state, backing_data, current_bank, cart_ram, ram_size,
             cart_type, op, ptr, val, ret, sel>>
cpuVars == <<a, f, h, l, pc, instr, operand, cycles, prev_a, prev_f, prev_hl>>
vars == <<romVars, cpuVars>>

(***************************************************************************)
(* Fixed-width integer helpers.                                            *)
(***************************************************************************)
U8 == 0 .. 255

RECURSIVE BitAnd(_, _)
BitAnd(x, y) ==
    IF x = 0 \/ y = 0 THEN 0
    ELSE (x % 2) * (y % 2) + 2 * BitAnd(x \div 2, y \div 2)

RECURSIVE BitXor(_, _)
BitXor(x, y) ==
    IF x = 0 THEN y
    ELSE IF y = 0 THEN x
    ELSE (((x % 2) + (y % 2)) % 2) + 2 * BitXor(x \div 2, y \div 2)

\* u8::wrapping_add, u8::wrapping_sub, u16::wrapping_add
wrapping_add8(x, y) == (x + y) % 256
wrapping_sub8(x, y) == (x - y + 256) % 256
wrapping_add16(x, y) == (x + y) % 65536

(***************************************************************************)
(* rom.rs : CartridgeType                                                  *)
(***************************************************************************)
RomOnly == 0
RomMbc1 == 1
RomMbc1Ram == 2
RomMbc1RamBatt == 3
RomMbc2 == 5
RomMbc3RamBatt == 19

\* every discriminant the enum declares
CartridgeType ==
    {0, 1, 2, 3, 5, 6, 8, 9, 11, 12, 13, 15, 16, 17, 18, 19,
     25, 26, 27, 28, 29, 30, 31, 253, 254, 255}

\* the two match arms of read / write that are implemented
IsRomOnly(t) == t = RomOnly
IsBanking(t) == t \in {RomMbc1, RomMbc1Ram, RomMbc1RamBatt, RomMbc3RamBatt}

(***************************************************************************)
(* The cartridge image.  A Vec<u8> of up to several banks is kept as its   *)
(* length plus the header fields build consumes; every other byte is a     *)
(* fixed function of its offset that differs between banks and is never    *)
(* 0xFF, so a wrongly resolved offset or the sentinel is always visible.   *)
(***************************************************************************)
BankSize == 16384          \* 0x4000
HeaderTypeOffset == 327    \* 0x0147
HeaderRamOffset == 329     \* 0x0149
NameEnd == 322             \* 0x142, end of the name slice 0x134 .. 0x142
Sentinel == 255            \* 0xFF

MaxBanks == 3              \* largest sampled image, in 16 KiB banks

ByteAt(d, i) ==
    IF i = HeaderTypeOffset THEN d.type
    ELSE IF i = HeaderRamOffset THEN d.ramid
    ELSE (i + 7 * (i \div BankSize)) % 251

ImageLens == {256, 336} \cup {k * BankSize : k \in 1 .. MaxBanks}
\* the plain type, a banking type, a declared type without routing, and a
\* byte (0x20) that is no declared discriminant
TypeBytes == {RomOnly, RomMbc1, RomMbc2, 32}
RamIds == {0, 1, 5}
Files == [len : ImageLens, type : TypeBytes, ramid : RamIds, utf8 : BOOLEAN]

NoData == [len |-> 0, type |-> 0, ramid |-> 0, utf8 |-> TRUE]

\* sampled arguments of the mapper calls
Addrs == {0, 8191, 8192, 16383, 16384, 24576, 32767, 65535}
BankVals == {0, 1, 2, 32, 227}
RamAddrs == {0, 2047, 2048}
RamVals == {165}

(***************************************************************************)
(* rom.rs : get_ram_size                                                   *)
(***************************************************************************)
KnownRamId(id) == id \in 0 .. 4

get_ram_size(id) ==
    CASE id = 0 -> 0
      [] id = 1 -> 2 * 1024
      [] id = 2 -> 8 * 1024
      [] id = 3 -> 32 * 1024
      [] id = 4 -> 128 * 1024

(***************************************************************************)
(* rom.rs : GameROM::build                                                 *)
(***************************************************************************)
\* the indexing, utf8 and RAM-size panics of build
BuildPanics(d) ==
    \/ d.len < NameEnd
    \/ ~d.utf8
    \/ d.len <= HeaderTypeOffset
    \/ d.len <= HeaderRamOffset
    \/ ~KnownRamId(ByteAt(d, HeaderRamOffset))

\* unsafe { transmute(data[0x0147]) }: a byte that is a declared discriminant
\* is that variant; any other byte is undefined behaviour, after which the
\* value may behave as any variant or as none of them.
transmute(b) == IF b \in CartridgeType THEN {b} ELSE CartridgeType \cup {b}

\* vec![0xFF; ram_size], kept at the cells the model addresses
NewRam(size) == [i \in {p \in RamAddrs : p < size} |-> Sentinel]

build ==
    /\ rom_state = "unbuilt"
    /\ op' = "build"
    /\ UNCHANGED <<file, ptr, val, ret, sel>>
    /\ IF BuildPanics(file)
       THEN /\ rom_state' = "panicked"
            /\ UNCHANGED <<backing_data, current_bank, cart_ram, ram_size,
                           cart_type>>
       ELSE /\ rom_state' = "live"
            /\ backing_data' = file
            /\ cart_type' \in transmute(ByteAt(file, HeaderTypeOffset))
            /\ ram_size' = get_ram_size(ByteAt(file, HeaderRamOffset))
            /\ cart_ram' = NewRam(get_ram_size(ByteAt(file, HeaderRamOffset)))
            /\ current_bank' = 1
    /\ UNCHANGED cpuVars

(***************************************************************************)
(* rom.rs : GameROM::read                                                  *)
(***************************************************************************)
Ok(v) == [ok |-> TRUE, val |-> v]
Panic == [ok |-> FALSE, val |-> 0]

\* self.backing_data[i]
Index(d, i) == IF i < d.len THEN Ok(ByteAt(d, i)) ELSE Panic

\* let target = ptr as usize + (self.current_bank as usize - 1) * 0x4000
ReadTargetWrongBank(p, bank) == p + bank * BankSize
ReadTarget(p, bank) == p + (bank - 1) * BankSize

\* the bounds check of the switchable window
OutOfRange(target, d) == target >= d.len

ReadOutcome(d, t, bank, p) ==
    IF IsRomOnly(t) THEN Index(d, p)
    ELSE IF IsBanking(t) THEN
        IF p < BankSize THEN Index(d, p)
        ELSE IF OutOfRange(ReadTarget(p, bank), d) THEN Ok(Sentinel)
        ELSE Index(d, ReadTarget(p, bank))
    ELSE Panic

read(p) ==
    /\ rom_state = "live"
    /\ LET r == ReadOutcome(backing_data, cart_type, current_bank, p) IN
        /\ rom_state' = IF r.ok THEN "live" ELSE "panicked"
        /\ ret' = r.val
    /\ op' = "read" /\ ptr' = p /\ val' = 0
    /\ UNCHANGED <<file, backing_data, current_bank, cart_ram, ram_size,
                   cart_type, sel>>
    /\ UNCHANGED cpuVars

(***************************************************************************)
(* rom.rs : GameROM::read_ram                                              *)
(***************************************************************************)
\* if self.ram_size == 0
RamAbsentNever(size) == FALSE
RamAbsent(size) == size = 0

\* self.cart_ram[i]: the Vec holds ram_size bytes
RamIndex(ram, size, i) == IF i < size THEN Ok(ram[i]) ELSE Panic

ReadRamOutcome(ram, size, p) ==
    IF RamAbsent(size) THEN Ok(Sentinel) ELSE RamIndex(ram, size, p)

read_ram(p) ==
    /\ rom_state = "live"
    /\ LET r == ReadRamOutcome(cart_ram, ram_size, p) IN
        /\ rom_state' = IF r.ok THEN "live" ELSE "panicked"
        /\ ret' = r.val
    /\ op' = "read_ram" /\ ptr' = p /\ val' = 0
    /\ UNCHANGED <<file, backing_data, current_bank, cart_ram, ram_size,
                   cart_type, sel>>
    /\ UNCHANGED cpuVars

(***************************************************************************)
(* rom.rs : GameROM::write                                                 *)
(***************************************************************************)
\* self.current_bank = val & 0b11111; if self.current_bank < 1 { ... = 1 }
SelectBankNoClamp(v) == BitAnd(v, 31)
SelectBank(v) ==
    LET masked == BitAnd(v, 31) IN
    IF masked < 1 THEN 1 ELSE masked

\* the arm 0x2000 ... 0x3FFF of the match on ptr
InBankSelectWide(p) == p <= 16383
InBankSelect(p) == 8192 <= p /\ p <= 16383

\* the bank a write leaves on a banking cartridge; the arms 0x0000 ... 0x1FFF,
\* 0x6000 ... 0x7FFF and _ only print
BankAfterWrite(p, v, bank) ==
    IF InBankSelect(p) THEN SelectBank(v) ELSE bank

write(p, v) ==
    /\ rom_state = "live"
    /\ op' = "write" /\ ptr' = p /\ val' = v /\ ret' = 0
    /\ sel' = IF 8192 <= p /\ p <= 16383 THEN <<v>> ELSE sel
    /\ IF IsRomOnly(cart_type)
       THEN UNCHANGED <<rom_state, current_bank>>
       ELSE IF IsBanking(cart_type)
       THEN /\ current_bank' = BankAfterWrite(p, v, current_bank)
            /\ UNCHANGED rom_state
       ELSE /\ rom_state' = "panicked"
            /\ UNCHANGED current_bank
    /\ UNCHANGED <<file, backing_data, cart_ram, ram_size, cart_type>>
    /\ UNCHANGED cpuVars

(***************************************************************************)
(* rom.rs : GameROM::write_ram                                             *)
(***************************************************************************)
write_ram(p, v) ==
    /\ rom_state = "live"
    /\ op' = "write_ram" /\ ptr' = p /\ val' = v /\ ret' = 0
    /\ IF RamAbsent(ram_size)
       THEN UNCHANGED <<rom_state, cart_ram>>
       ELSE IF p < ram_size
       THEN /\ cart_ram' = [cart_ram EXCEPT ![p] = v]
            /\ UNCHANGED rom_state
       ELSE /\ rom_state' = "panicked"
            /\ UNCHANGED cart_ram
    /\ UNCHANGED <<file, backing_data, current_bank, ram_size, cart_type, sel>>
    /\ UNCHANGED cpuVars

(***************************************************************************)
(* The mapper on its own: the CPU registers stay at their power-on zeros.  *)
(***************************************************************************)
NoSel == <<>>   \* sel before any bank-select write; <<v>> after one

CpuIdle ==
    /\ a = 0 /\ f = 0 /\ h = 0 /\ l = 0 /\ pc = 0
    /\ instr = "none" /\ operand = 0 /\ cycles = 0
    /\ prev_a = 0 /\ prev_f = 0 /\ prev_hl = 0

RomIdle ==
    /\ file = NoData /\ rom_state = "unbuilt" /\ backing_data = NoData
    /\ current_bank = 0 /\ cart_ram = NewRam(0) /\ ram_size = 0
    /\ cart_type = RomOnly
    /\ op = "none" /\ ptr = 0 /\ val = 0 /\ ret = 0 /\ sel = NoSel

InitRom ==
    /\ file \in Files
    /\ rom_state = "unbuilt" /\ backing_data = NoData
    /\ current_bank = 0 /\ cart_ram = NewRam(0) /\ ram_size = 0
    /\ cart_type = RomOnly
    /\ op = "none" /\ ptr = 0 /\ val = 0 /\ ret = 0 /\ sel = NoSel
    /\ CpuIdle

NextRom ==
    \/ build
    \/ \E p \in Addrs : read(p)
    \/ \E p \in RamAddrs : read_ram(p)
    \/ \E p \in Addrs, v \in BankVals : write(p, v)
    \/ \E p \in RamAddrs, v \in RamVals : write_ram(p, v)

SpecRom == InitRom /\ [][NextRom]_vars

(***************************************************************************)
(* The register file as the handlers of general.rs use it: the flag bits   *)
(* of f, the immediate operand fetch and the HL pair.                      *)
(***************************************************************************)
FlagZ == 128
FlagN == 64
FlagH == 32
FlagC == 16

get_flag(fv, mask) == (fv \div mask) % 2 = 1
set_flag(fv, mask, on) ==
    IF on THEN (IF get_flag(fv, mask) THEN fv ELSE fv + mask)
    ELSE (IF get_flag(fv, mask) THEN fv - mask ELSE fv)

get_hl == h * 256 + l

\* get_n(cpu): the byte after the opcode, n, is consumed from the stream
AfterGetN == (pc + 1) % 65536

Fresh == instr = "none"

(***************************************************************************)
(* general.rs : add_a_n                                                    *)
(***************************************************************************)
\* ((value & 0x0F) + (prev_value & 0x0F)) > 0xF
AddHalfCarryNoNibbleMask(value, prev_value) == (value + prev_value) > 15
AddHalfCarry(value, prev_value) ==
    (BitAnd(value, 15) + BitAnd(prev_value, 15)) > 15

\* ((prev_value as u16) + (value as u16)) > 0xFF
AddCarry(value, prev_value) == (prev_value + value) > 255

add_a_n(n) ==
    /\ Fresh
    /\ LET prev_value == a
           value == n
           new_value == wrapping_add8(prev_value, value)
       IN /\ a' = new_value
          /\ f' = set_flag(set_flag(set_flag(set_flag(f,
                      FlagZ, new_value = 0),
                      FlagN, FALSE),
                      FlagH, AddHalfCarry(value, prev_value)),
                      FlagC, AddCarry(value, prev_value))
    /\ pc' = AfterGetN
    /\ cycles' = 8
    /\ instr' = "add_a_n" /\ operand' = n
    /\ prev_a' = a /\ prev_f' = f /\ prev_hl' = get_hl
    /\ UNCHANGED <<h, l>>
    /\ UNCHANGED romVars

(***************************************************************************)
(* general.rs : sub_a_n                                                    *)
(***************************************************************************)
\* ((value as i16 & 0x0F) - (prev_value as i16 & 0x0F)) < 0
SubHalfCarry(value, prev_value) ==
    (BitAnd(value, 15) - BitAnd(prev_value, 15)) < 0

\* ((prev_value as i16) - (value as i16)) < 0
SubCarry(value, prev_value) == (prev_value - value) < 0

sub_a_n(n) ==
    /\ Fresh
    /\ LET prev_value == a
           value == n
           new_value == wrapping_sub8(prev_value, value)
       IN /\ a' = new_value
          /\ f' = set_flag(set_flag(set_flag(set_flag(f,
                      FlagZ, new_value = 0),
                      FlagN, TRUE),
                      FlagH, SubHalfCarry(value, prev_value)),
                      FlagC, SubCarry(value, prev_value))
    /\ pc' = AfterGetN
    /\ cycles' = 8
    /\ instr' = "sub_a_n" /\ operand' = n
    /\ prev_a' = a /\ prev_f' = f /\ prev_hl' = get_hl
    /\ UNCHANGED <<h, l>>
    /\ UNCHANGED romVars

(***************************************************************************)
(* general.rs : adc_a_n                                                    *)
(***************************************************************************)
\* (old_value ^ new_value ^ value & 0x10) == 0x10
\* Rust binds & tighter than ^, and == loosest.
AdcHalfCarry(old_value, new_value, value) ==
    BitXor(BitXor(old_value, new_value), BitAnd(value, 16)) = 16

\* ((old_value as u16) ^ unwrapped_value ^ (value as u16) & 0x100) == 0x100
AdcCarry(old_value, unwrapped_value, value) ==
    BitXor(BitXor(old_value, unwrapped_value), BitAnd(value, 256)) = 256

adc_a_n(n) ==
    /\ Fresh
    /\ LET value == n
           old_value == a
           carry_in == IF get_flag(f, FlagC) THEN 1 ELSE 0
           new_value == wrapping_add8(wrapping_add8(old_value, value), carry_in)
           unwrapped_value == old_value + value + carry_in
       IN /\ a' = new_value
          /\ f' = set_flag(set_flag(set_flag(0,
                      FlagZ, new_value = 0),
                      FlagH, AdcHalfCarry(old_value, new_value, value)),
                      FlagC, AdcCarry(old_value, unwrapped_value, value))
    /\ pc' = AfterGetN
    /\ cycles' = 8
    /\ instr' = "adc_a_n" /\ operand' = n
    /\ prev_a' = a /\ prev_f' = f /\ prev_hl' = get_hl
    /\ UNCHANGED <<h, l>>
    /\ UNCHANGED romVars

(***************************************************************************)
(* general.rs : add_hl_x                                                   *)
(***************************************************************************)
\* ((val & 0x0FFF) + (prev_value & 0x0FFF)) > 0xFFF
AddHlHalfCarryByteMask(x, prev_value) ==
    (BitAnd(x, 255) + BitAnd(prev_value, 255)) > 255
AddHlHalfCarry(x, prev_value) ==
    (BitAnd(x, 4095) + BitAnd(prev_value, 4095)) > 4095

\* ((prev_value as u32) + (val as u32)) > 0xFFFF
AddHlCarry(x, prev_value) == (prev_value + x) > 65535

add_hl_x(x) ==
    /\ Fresh
    /\ LET prev_value == get_hl
           sum == wrapping_add16(prev_value, x)
       IN /\ h' = sum \div 256
          /\ l' = sum % 256
          /\ f' = set_flag(set_flag(set_flag(f,
                      FlagN, FALSE),
                      FlagH, AddHlHalfCarry(x, prev_value)),
                      FlagC, AddHlCarry(x, prev_value))
    /\ cycles' = 8
    /\ instr' = "add_hl_x" /\ operand' = x
    /\ prev_a' = a /\ prev_f' = f /\ prev_hl' = get_hl
    /\ UNCHANGED <<a, pc>>
    /\ UNCHANGED romVars

(***************************************************************************)
(* The arithmetic handlers on their own: no cartridge is built.            *)
(***************************************************************************)
\* flag registers the 8-bit handlers start from: carry alone (every other
\* flag clear), and every flag but carry
FlagBytes8 == {FlagC, FlagZ + FlagN + FlagH}
\* every combination of the four flag bits
FlagBytes == {16 * k : k \in 0 .. 15}
\* sampled 16-bit values around the bit-11 and bit-15 carries
Words == {0, 1, 255, 256, 2047, 2048, 4095, 4096, 4097, 32767, 32768,
          61440, 61441, 61695, 65280, 65535}

InitAlu8 ==
    /\ a \in U8 /\ f \in FlagBytes8 /\ h = 0 /\ l = 0 /\ pc = 0
    /\ instr = "none" /\ operand = 0 /\ cycles = 0
    /\ prev_a = 0 /\ prev_f = 0 /\ prev_hl = 0
    /\ RomIdle

NextAlu8 ==
    \/ \E n \in U8 : add_a_n(n)
    \/ \E n \in U8 : sub_a_n(n)
    \/ \E n \in U8 : adc_a_n(n)

SpecAlu8 == InitAlu8 /\ [][NextAlu8]_vars

InitAlu16 ==
    /\ a = 0 /\ f \in FlagBytes /\ pc = 0
    /\ \E w \in Words : h = w \div 256 /\ l = w % 256
    /\ instr = "none" /\ operand = 0 /\ cycles = 0
    /\ prev_a = 0 /\ prev_f = 0 /\ prev_hl = 0
    /\ RomIdle

NextAlu16 == \E x \in Words : add_hl_x(x)

SpecAlu16 == InitAlu16 /\ [][NextAlu16]_vars

(***************************************************************************)
(* Properties of the mapper, checked under SpecRom.                        *)
(***************************************************************************)
Built == rom_state # "unbuilt" /\ backing_data # NoData
Max(x, y) == IF x >= y THEN x ELSE y

\* the bank the latest bank-select write asks for
SelectedBank == IF sel = NoSel THEN 1 ELSE Max(1, sel[1] % 32)

InSelectRange(p) == p \in 8192 .. 16383

\* C1: on a banking cartridge the active bank is always max(1, v & 0b11111)
\* for the latest value v written into 0x2000-0x3FFF, 1 if there was no such
\* write; it is never 0.
C1_ActiveBank ==
    (Built /\ IsBanking(cart_type)) =>
        /\ current_bank = SelectedBank
        /\ current_bank # 0

C1_Witness ==
    /\ Built /\ IsBanking(cart_type)
    /\ op = "write" /\ InSelectRange(ptr) /\ val = 32
    /\ current_bank = 1

\* C2: on a banking cartridge a read below 0x4000 returns image[address]
\* whatever the active bank, and a read at or above 0x4000 returns
\* image[address + (bank - 1) * 0x4000] when that offset lies in the image,
\* bank being the one selected by the latest bank-select write.
C2_ReadResolves ==
    (op = "read" /\ IsBanking(cart_type)) =>
        /\ (ptr < 16384 /\ ptr < backing_data.len) =>
               /\ rom_state = "live"
               /\ ret = ByteAt(backing_data, ptr)
        /\ (ptr >= 16384
              /\ ptr + (SelectedBank - 1) * 16384 < backing_data.len) =>
               /\ rom_state = "live"
               /\ ret = ByteAt(backing_data, ptr + (SelectedBank - 1) * 16384)

C2_Witness ==
    /\ op = "read" /\ IsBanking(cart_type) /\ rom_state = "live"
    /\ ptr = 16384 /\ sel = <<2>>
    /\ ret = ByteAt(backing_data, 32768)

\* the storage offset the read contract resolves an address to
ResolvedOffset(t, bank, p) ==
    IF IsBanking(t) /\ p >= 16384 THEN p + (bank - 1) * 16384 ELSE p

\* C3: on a no-banking or banking cartridge, a read whose resolved offset is
\* at or beyond the image length returns 0xFF and does not panic.
C3_BeyondImageReadsFF ==
    (op = "read" /\ (IsRomOnly(cart_type) \/ IsBanking(cart_type))
       /\ ResolvedOffset(cart_type, current_bank, ptr) >= backing_data.len) =>
        /\ rom_state = "live"
        /\ ret = 255

\* C8: on a built cartridge with RAM size 0, read_ram returns 0xFF, write_ram
\* changes no mapper state, and neither fails.
C8_NoRam ==
    [][(rom_state = "live" /\ ram_size = 0) =>
         /\ op' = "read_ram" => (ret' = 255 /\ rom_state' = "live")
         /\ op' = "write_ram" =>
               /\ rom_state' = "live"
               /\ cart_ram' = cart_ram
               /\ current_bank' = current_bank
               /\ backing_data' = backing_data
               /\ ram_size' = ram_size
               /\ cart_type' = cart_type]_vars

C8_Witness ==
    /\ rom_state = "live" /\ ram_size = 0
    /\ op = "write_ram" /\ val = 165

\* the cartridge types whose read / write routing exists
SupportedTypes == {0, 1, 2, 3, 19}

\* C9: for an image whose type byte is unrecognized or unimplemented, build
\* halts at construction and no cartridge is produced.
C9_BuildValidatesType ==
    (op # "none" /\ file.type \notin SupportedTypes) =>
        (op = "build" /\ rom_state = "panicked")

\* C10: a write changes nothing but the active bank, and that only on a
\* banking cartridge for an address in 0x2000-0x3FFF: the image and the
\* cartridge RAM never change, a write on a no-banking cartridge does not
\* fail, and after a write that is not a bank select every read and read_ram
\* gives what it gave before.
C10_WriteFrame ==
    [][(rom_state = "live" /\ op' = "write") =>
         /\ backing_data' = backing_data
         /\ cart_ram' = cart_ram
         /\ ram_size' = ram_size
         /\ cart_type' = cart_type
         /\ IsRomOnly(cart_type) =>
               (current_bank' = current_bank /\ rom_state' = "live")
         /\ (IsBanking(cart_type) /\ ~InSelectRange(ptr')) =>
               (current_bank' = current_bank /\ rom_state' = "live")
         /\ (IsRomOnly(cart_type)
              \/ (IsBanking(cart_type) /\ ~InSelectRange(ptr'))) =>
               /\ \A p \in Addrs :
                      ReadOutcome(backing_data', cart_type', current_bank', p)
                        = ReadOutcome(backing_data, cart_type, current_bank, p)
               /\ \A p \in RamAddrs :
                      ReadRamOutcome(cart_ram', ram_size', p)
                        = ReadRamOutcome(cart_ram, ram_size, p)]_vars

C10_Witness ==
    /\ rom_state = "live" /\ IsBanking(cart_type)
    /\ op = "write" /\ ptr = 24576 /\ val = 1
    /\ current_bank = 2

(***************************************************************************)
(* Properties of the arithmetic handlers, checked under SpecAlu8 and       *)
(* SpecAlu16.                                                              *)
(***************************************************************************)
Bit(b) == IF b THEN 1 ELSE 0
CarryIn == Bit(get_flag(prev_f, FlagC))

\* C4: adc_a_n adds the carry-in before wrapping and before the flags: a is
\* (a + n + cin) mod 256, zero iff that is 0, carry iff a + n + cin > 0xFF,
\* half-carry iff the low nibbles plus cin exceed 0xF; 0xFF + 0x01 + 1 gives
\* a = 0x01, carry set, zero clear.
C4_AdcCarryIn ==
    instr = "adc_a_n" =>
        /\ a = (prev_a + operand + CarryIn) % 256
        /\ get_flag(f, FlagZ) <=> (a = 0)
        /\ get_flag(f, FlagC) <=> (prev_a + operand + CarryIn > 255)
        /\ get_flag(f, FlagH) <=>
               ((prev_a % 16) + (operand % 16) + CarryIn > 15)
        /\ (prev_a = 255 /\ operand = 1 /\ CarryIn = 1) =>
               (a = 1 /\ get_flag(f, FlagC) /\ ~get_flag(f, FlagZ))

\* C5: sub_a_n leaves (a - b) mod 256 in a, sets the subtract flag, sets
\* half-carry iff (b & 0xF) > (a & 0xF) and carry iff b > a.
C5_Sub ==
    instr = "sub_a_n" =>
        /\ a = (prev_a - operand + 256) % 256
        /\ get_flag(f, FlagN)
        /\ get_flag(f, FlagH) <=> ((operand % 16) > (prev_a % 16))
        /\ get_flag(f, FlagC) <=> (operand > prev_a)

\* C6: add_a_n leaves (a + b) mod 256 in a, sets zero iff that is 0, clears
\* subtract, sets half-carry iff (a & 0xF) + (b & 0xF) > 0xF, carry iff
\* a + b > 0xFF, and returns 8 cycles; 0x0F + 0x01 gives 0x10 with only the
\* half-carry flag set.
C6_Add ==
    instr = "add_a_n" =>
        /\ a = (prev_a + operand) % 256
        /\ get_flag(f, FlagZ) <=> (a = 0)
        /\ ~get_flag(f, FlagN)
        /\ get_flag(f, FlagH) <=> ((prev_a % 16) + (operand % 16) > 15)
        /\ get_flag(f, FlagC) <=> (prev_a + operand > 255)
        /\ cycles = 8
        /\ (prev_a = 15 /\ operand = 1) => (a = 16 /\ f = FlagH)

C6_Witness ==
    /\ instr = "add_a_n" /\ prev_a = 15 /\ operand = 1
    /\ prev_f = FlagZ + FlagN + FlagH
    /\ a = 16 /\ f = FlagH /\ cycles = 8

\* C7: add_hl_x leaves (hl + x) mod 65536 in HL, clears subtract, sets
\* half-carry iff there is a carry out of bit 11, carry iff hl + x > 0xFFFF,
\* and leaves the zero flag as it was.
C7_AddHl ==
    instr = "add_hl_x" =>
        /\ get_hl = (prev_hl + operand) % 65536
        /\ ~get_flag(f, FlagN)
        /\ get_flag(f, FlagH) <=>
               ((prev_hl % 4096) + (operand % 4096) > 4095)
        /\ get_flag(f, FlagC) <=> (prev_hl + operand > 65535)
        /\ get_flag(f, FlagZ) <=> get_flag(prev_f, FlagZ)

C7_Witness ==
    /\ instr = "add_hl_x" /\ prev_hl = 4095 /\ operand = 1
    /\ get_flag(prev_f, FlagZ) /\ get_flag(prev_f, FlagN)
    /\ get_hl = 4096
    /\ get_flag(f, FlagH) /\ ~get_flag(f, FlagC)
    /\ get_flag(f, FlagZ) /\ ~get_flag(f, FlagN)

====
